---- MODULE Spec2Model ----
(***************************************************************************)
(* A model of main.py of QCoDeSStreamlit: the schema initializer           *)
(* (init_database), the memoized polling fetcher (fetch_live_data behind   *)
(* st.cache_data(ttl=300)), the polling loop (realtime_plotting), the      *)
(* chart dispatcher (create_plot) and the experiment loader / axis picker  *)
(* (the live definition of qcodes_integration, lines 208-253).             *)
(*                                                                         *)
(* Three specifications share the variables:                               *)
(*   SpecDB    the database file, the cache and the polling loop           *)
(*   SpecUI    the reruns of qcodes_integration under user events          *)
(*   SpecPlot  create_plot applied to bounded inputs                       *)
(***************************************************************************)
EXTENDS Integers, Sequences, FiniteSets, TLC

VARIABLES
    db,         \* the database file: [exists, cols, rows]
    openConns,  \* sqlite3 connections opened and not closed
    now,        \* wall clock, seconds
    cache,      \* st.cache_data entries of fetch_live_data, by argument
    fetchLog,   \* the latest run of the body of fetch_live_data
    loop,       \* realtime_plotting: its position, last_index and what it drew
    last,       \* the operation that ran last on the database side, with its outcome
    ss,         \* st.session_state: the keys "df" and "parameters"
    wid,        \* widget values kept by Streamlit between reruns
    ui,         \* what the last rerun of qcodes_integration put on the page
    ev,         \* the user event that caused the last rerun
    plot        \* the last call of create_plot: its arguments and result

dbVars == <<db, openConns, now, cache, fetchLog, loop, last>>
uiVars == <<ss, wid, ui, ev>>
vars == <<db, openConns, now, cache, fetchLog, loop, last, ss, wid, ui, ev, plot>>

----------------------------------------------------------------------------
(* Bounds of the model *)

\* rows the external writer inserts into runs
MaxRows == 3
\* connections that may be left open before the model stops failing calls
MaxLeaks == 2
\* the clock stops here
MaxTime == 600
\* seconds one Tick advances the clock
TickStep == 150

(* Program constants *)

\* st.cache_data(ttl=300)
CacheTTL == 300

----------------------------------------------------------------------------
(* Helpers on sets and sequences *)

Range(s) == {s[i] : i \in 1..Len(s)}

SetMax(S) == CHOOSE x \in S : \A y \in S : y <= x

SetMin(S) == CHOOSE x \in S : \A y \in S : x <= y

RECURSIVE Ascending(_)
Ascending(S) == IF S = {} THEN <<>>
                ELSE <<SetMin(S)>> \o Ascending(S \ {SetMin(S)})

IsAscending(s) == \A i \in 1..(Len(s) - 1) : s[i] < s[i + 1]

----------------------------------------------------------------------------
(* The database file and init_database *)

RunsColumns == {"id", "timestamp", "parameters", "data"}

NoTable == [exists |-> FALSE, cols |-> {}, rows |-> {}]

\* CREATE TABLE runs (...) without the guard: an error when runs is there.
CreateTable(d) ==
    IF d.exists THEN [exc |-> "OperationalError", db |-> d]
    ELSE [exc |-> "none",
          db |-> [exists |-> TRUE, cols |-> RunsColumns, rows |-> {}]]

\* CREATE TABLE IF NOT EXISTS runs (id INTEGER PRIMARY KEY, timestamp
\* DATETIME, parameters TEXT, data BLOB): nothing happens when runs is there.
CreateTableIfNotExists(d) ==
    IF d.exists THEN [exc |-> "none", db |-> d]
    ELSE [exc |-> "none",
          db |-> [exists |-> TRUE, cols |-> RunsColumns, rows |-> {}]]

\* init_database(): connect, execute, commit, close, in this order and with no
\* try/finally.  fault: sqlite3 raises OperationalError in execute (the file
\* is locked by the writer, or cannot be written); lines 59-60 are skipped.
init_database(d, conns, fault) ==
    IF fault
    THEN [exc |-> "OperationalError", db |-> d, conns |-> conns + 1]
    ELSE LET r == CreateTableIfNotExists(d)
         IN  IF r.exc # "none"
             THEN [exc |-> r.exc, db |-> d, conns |-> conns + 1]
             ELSE [exc |-> "none", db |-> r.db, conns |-> conns]

----------------------------------------------------------------------------
(* fetch_live_data and its cache *)

\* The module binds QCODES_DB_PATH (line 41) and nothing named DB_PATH:
\* evaluating the argument of sqlite3.connect(DB_PATH) raises NameError.
DB_PATH_defined == FALSE

\* SELECT * FROM runs WHERE id > last_index: a scan of the rowid table, which
\* SQLite walks in rowid (= id) order.
SelectRuns(d, last_index) == Ascending({r \in d.rows : r > last_index})

\* Line 75: new_data['id'].max() if not new_data.empty else last_index
NewWatermark(new_data, last_index) ==
    IF new_data # <<>> THEN SetMax(Range(new_data)) ELSE last_index

\* The body of fetch_live_data, lines 69-75.  conns: the connections open
\* when it finishes; pd.read_sql raising skips conn.close() of line 73.
fetch_live_data(d, conns, last_index) ==
    IF ~DB_PATH_defined
    THEN [exc |-> "NameError", batch |-> <<>>, wm |-> last_index,
          conns |-> conns]
    ELSE IF ~d.exists
    THEN [exc |-> "DatabaseError", batch |-> <<>>, wm |-> last_index,
          conns |-> conns + 1]
    ELSE LET new_data == SelectRuns(d, last_index)
         IN  [exc |-> "none", batch |-> new_data,
              wm |-> NewWatermark(new_data, last_index), conns |-> conns]

NoEntry == [full |-> FALSE, at |-> 0, batch |-> <<>>, wm |-> 0]

Fresh(e, t) == e.full /\ t - e.at < CacheTTL

\* st.cache_data(ttl=300) around fetch_live_data: an unexpired entry for the
\* argument is returned without running the body; otherwise the body runs and
\* its return value is stored.  A raised exception is not stored.
cached_fetch(c, d, conns, t, last_index) ==
    IF Fresh(c[last_index], t)
    THEN [exc |-> "none", batch |-> c[last_index].batch,
          wm |-> c[last_index].wm, conns |-> conns, hit |-> TRUE, cache |-> c]
    ELSE LET r == fetch_live_data(d, conns, last_index)
         IN  [exc |-> r.exc, batch |-> r.batch, wm |-> r.wm,
              conns |-> r.conns, hit |-> FALSE,
              cache |-> IF r.exc = "none"
                        THEN [c EXCEPT ![last_index] =
                                [full |-> TRUE, at |-> t,
                                 batch |-> r.batch, wm |-> r.wm]]
                        ELSE c]

Watermarks == 0..MaxRows

----------------------------------------------------------------------------
(* create_plot *)

\* The labels of the selectbox of line 95, in its order:
\* scatter, line, surface, histogram.
PlotTypes == {"scatter", "line", "surface", "histogram"}

\* A label that is none of the four.
OtherPlotTypes == {"other"}

DataColumns ==
    {"id", "time", "voltage", "current", "temperature", "frequency",
     "parameters"}

\* A create_plot whose fall-through returns no chart instead of reading fig.
create_plot_silent(data, plot_type) ==
    IF plot_type = "scatter"
    THEN IF {"voltage", "current", "temperature", "frequency"} \subseteq data.cols
         THEN [exc |-> "none", fig |-> "scatter"]
         ELSE [exc |-> "ValueError", fig |-> "none"]
    ELSE IF plot_type = "line"
    THEN IF {"time", "current", "id", "parameters"} \subseteq data.cols
         THEN [exc |-> "none", fig |-> "line"]
         ELSE [exc |-> "ValueError", fig |-> "none"]
    ELSE IF plot_type = "surface"
    THEN IF {"voltage", "current", "temperature"} \subseteq data.cols
         THEN [exc |-> "none", fig |-> "surface"]
         ELSE [exc |-> "KeyError", fig |-> "none"]
    ELSE IF plot_type = "histogram"
    THEN IF {"current"} \subseteq data.cols
         THEN [exc |-> "none", fig |-> "histogram"]
         ELSE [exc |-> "ValueError", fig |-> "none"]
    ELSE [exc |-> "none", fig |-> "none"]

\* create_plot(data, plot_type), lines 117-135.  data.cols are the columns of
\* the DataFrame; a chart-building call raises when a column it names is not
\* among them.  With no branch taken fig is unbound at line 130.
create_plot(data, plot_type) ==
    IF plot_type = "scatter"
    THEN IF {"voltage", "current", "temperature", "frequency"} \subseteq data.cols
         THEN [exc |-> "none", fig |-> "scatter"]
         ELSE [exc |-> "ValueError", fig |-> "none"]
    ELSE IF plot_type = "line"
    THEN IF {"time", "current", "id", "parameters"} \subseteq data.cols
         THEN [exc |-> "none", fig |-> "line"]
         ELSE [exc |-> "ValueError", fig |-> "none"]
    ELSE IF plot_type = "surface"
    THEN IF {"voltage", "current", "temperature"} \subseteq data.cols
         THEN [exc |-> "none", fig |-> "surface"]
         ELSE [exc |-> "KeyError", fig |-> "none"]
    ELSE IF plot_type = "histogram"
    THEN IF {"current"} \subseteq data.cols
         THEN [exc |-> "none", fig |-> "histogram"]
         ELSE [exc |-> "ValueError", fig |-> "none"]
    ELSE [exc |-> "UnboundLocalError", fig |-> "none"]

NoPlot == [called |-> FALSE, cols |-> {}, plot_type |-> "none",
           exc |-> "none", fig |-> "none"]

----------------------------------------------------------------------------
(* The database side: state and actions *)

NoCall == [ran |-> FALSE, w |-> 0, at |-> 0, exc |-> "none",
           batch |-> <<>>, wm |-> 0]

Op(act) == [act |-> act, w |-> 0, exc |-> "none", batch |-> <<>>, wm |-> 0,
            hit |-> FALSE, fault |-> FALSE, pre |-> NoTable, prev |-> NoCall]

\* The update-interval slider of line 92 (0.1 to 5.0 s), in whole seconds.
Intervals == {1, 5}

LoopIdle == [pc |-> "idle", last_index |-> 0, plot_type |-> "scatter",
             interval |-> 1, drawn |-> <<>>]

InitDB ==
    /\ db = NoTable
    /\ openConns = 0
    /\ now = 0
    /\ cache = [w \in Watermarks |-> NoEntry]
    /\ fetchLog = NoCall
    /\ loop = LoopIdle
    /\ last = Op("none")

\* The main program, or a rerun of the script, calls init_database().
InitDatabase ==
    \E fault \in BOOLEAN :
        /\ fault => openConns < MaxLeaks
        /\ LET r == init_database(db, openConns, fault)
           IN  /\ r.exc # "none" => openConns < MaxLeaks
               /\ db' = r.db
               /\ openConns' = r.conns
               /\ last' = [Op("init") EXCEPT !.exc = r.exc, !.fault = fault,
                                             !.pre = db]
        /\ UNCHANGED <<now, cache, fetchLog, loop>>

\* The instrument side appends a run; INTEGER PRIMARY KEY gives it the next id.
InsertRow ==
    /\ db.exists
    /\ Cardinality(db.rows) < MaxRows
    /\ db' = [db EXCEPT !.rows = @ \cup {IF @ = {} THEN 1 ELSE SetMax(@) + 1}]
    /\ last' = Op("insert")
    /\ UNCHANGED <<openConns, now, cache, fetchLog, loop>>

Tick ==
    /\ now + TickStep <= MaxTime
    /\ now' = now + TickStep
    /\ last' = Op("tick")
    /\ UNCHANGED <<db, openConns, cache, fetchLog, loop>>

\* What a call of the cached function leaves in fetchLog: the latest run of
\* the body, replaced when the body runs again.
LogAfter(r, w) ==
    IF r.hit THEN fetchLog
    ELSE [ran |-> TRUE, w |-> w, at |-> now, exc |-> r.exc,
          batch |-> r.batch, wm |-> r.wm]

\* A call fetch_live_data(w) from anywhere.
FetchLiveData ==
    \E w \in Watermarks :
        LET r == cached_fetch(cache, db, openConns, now, w)
        IN  /\ r.conns <= MaxLeaks
            /\ cache' = r.cache
            /\ openConns' = r.conns
            /\ fetchLog' = LogAfter(r, w)
            /\ last' = [Op("fetch") EXCEPT
                           !.w = w, !.exc = r.exc, !.batch = r.batch,
                           !.wm = r.wm, !.hit = r.hit,
                           !.prev = IF fetchLog.ran /\ fetchLog.w = w
                                    THEN fetchLog ELSE NoCall]
            /\ UNCHANGED <<db, now, loop>>

\* realtime_plotting() up to the loop: the widgets of lines 92-96 give the
\* interval and the chart kind, and last_index = 0 (line 102).
StartRealtime ==
    \E pt \in PlotTypes, iv \in Intervals :
        /\ loop' = [pc |-> "running", last_index |-> 0, plot_type |-> pt,
                    interval |-> iv, drawn |-> <<>>]
        /\ last' = Op("start")
        /\ UNCHANGED <<db, openConns, now, cache, fetchLog>>

\* One pass of the while body, lines 105-109.  An exception of
\* fetch_live_data or of create_plot leaves the loop (nothing catches it).
PollIteration ==
    /\ loop.pc = "running"
    /\ LET r == cached_fetch(cache, db, openConns, now, loop.last_index)
           p == create_plot([cols |-> db.cols, ids |-> r.batch], loop.plot_type)
           drew == r.exc = "none" /\ r.batch # <<>> /\ p.exc = "none"
           died == r.exc # "none" \/ (r.batch # <<>> /\ p.exc # "none")
       IN  /\ r.conns <= MaxLeaks
           /\ cache' = r.cache
           /\ openConns' = r.conns
           /\ fetchLog' = LogAfter(r, loop.last_index)
           /\ loop' = [loop EXCEPT
                          !.pc = IF died THEN "crashed" ELSE "running",
                          !.last_index = IF r.exc = "none" THEN r.wm ELSE @,
                          !.drawn = IF drew THEN Append(@, r.batch) ELSE @]
           /\ now' = IF ~died /\ now + loop.interval <= MaxTime
                     THEN now + loop.interval ELSE now
           /\ last' = [Op("poll") EXCEPT
                          !.w = loop.last_index, !.exc = r.exc,
                          !.batch = r.batch, !.wm = r.wm, !.hit = r.hit]
    /\ UNCHANGED db

----------------------------------------------------------------------------
(* qcodes_integration (the definition of lines 208-253): strings *)

\* A Python str is the sequence of its characters.
Alphabet == {"a", ","}

\* the longest dataset.parameters string the data source returns
MaxLen == 3

\* the run identifiers the number_input of line 211 is set to
MaxRun == 2

RunIds == 1..MaxRun

RECURSIVE StringsUpTo(_)
StringsUpTo(n) ==
    IF n = 0 THEN {<<>>}
    ELSE LET shorter == StringsUpTo(n - 1)
         IN  shorter \cup {Append(t, ch) : t \in shorter, ch \in Alphabet}

ParamStrings == StringsUpTo(MaxLen)

FirstComma(str) == SetMin({i \in 1..Len(str) : str[i] = ","})

\* str.split(","): the pieces between the commas, empty pieces kept, so the
\* empty string gives the one-element list [""].
RECURSIVE split(_)
split(str) ==
    IF \A i \in 1..Len(str) : str[i] # "," THEN <<str>>
    ELSE <<SubSeq(str, 1, FirstComma(str) - 1)>>
         \o split(SubSeq(str, FirstComma(str) + 1, Len(str)))

\* What load_by_id(run_id) meets in the data source: no such run, a dataset
\* whose parameters attribute is None, or one whose parameters is a string.
NotFound == [found |-> FALSE, hasParams |-> FALSE, params |-> <<>>]

Datasets ==
    {NotFound, [found |-> TRUE, hasParams |-> FALSE, params |-> <<>>]}
    \cup {[found |-> TRUE, hasParams |-> TRUE, params |-> p] : p \in ParamStrings}

----------------------------------------------------------------------------
(* qcodes_integration: the load of lines 213-218 *)

NoSession == [df_in |-> FALSE, df |-> 0, parameters_in |-> FALSE,
              parameters |-> <<>>]

\* A load that drops what the session held when the run is not found.
load_clearing(s, run_id, ds) ==
    IF ~ds.found THEN [exc |-> "ValueError", ss |-> NoSession]
    ELSE IF ~ds.hasParams THEN [exc |-> "AttributeError", ss |-> s]
    ELSE [exc |-> "none",
          ss |-> [df_in |-> TRUE, df |-> run_id, parameters_in |-> TRUE,
                  parameters |-> split(ds.params)]]

\* Lines 214-218.  load_by_id raises ValueError for a run that is not there;
\* None has no split (AttributeError); both leave before lines 217-218.
load(s, run_id, ds) ==
    IF ~ds.found THEN [exc |-> "ValueError", ss |-> s]
    ELSE IF ~ds.hasParams THEN [exc |-> "AttributeError", ss |-> s]
    ELSE [exc |-> "none",
          ss |-> [df_in |-> TRUE, df |-> run_id, parameters_in |-> TRUE,
                  parameters |-> split(ds.params)]]

----------------------------------------------------------------------------
(* qcodes_integration: the pickers and the chart of lines 220-246 *)

\* index=0 (lines 230, 238)
default_index_x(parameters) == 0

\* A default that forgets the one-name list.
default_index_y_unguarded(parameters) == 1

\* index=1 if len(parameters) > 1 else 0 (lines 231, 239)
default_index_y(parameters) == IF Len(parameters) > 1 THEN 1 ELSE 0

\* index=2 if len(parameters) > 2 else 0 (line 240)
default_index_color(parameters) == IF Len(parameters) > 2 THEN 2 ELSE 0

\* st.sidebar.selectbox(label, options, index): the kept choice when the
\* widget has one, else options[index]; an index that is no position of
\* options is refused.  Indices count from 0, as in the source.
selectbox(options, index, kept, choice) ==
    LET i == IF kept THEN choice ELSE index
    IN  IF i >= 0 /\ i < Len(options)
        THEN [exc |-> "none", idx |-> i, value |-> options[i + 1]]
        ELSE [exc |-> "StreamlitAPIException", idx |-> i, value |-> <<>>]

NoChart == [kind |-> "none", x |-> <<>>, y |-> <<>>, color |-> <<>>]

NoWidgets == [chart_type |-> "line", x |-> 0, y |-> 0, color |-> 0,
              colorKept |-> FALSE]

Page(exc, pickers, colorPicker, chart) ==
    [exc |-> exc, pickers |-> pickers, colorPicker |-> colorPicker,
     chart |-> chart]

\* Lines 220-246 for a session that holds "df" and "parameters".  kept: the
\* X and Y pickers of the last page had these options (a selectbox with other
\* options is a new widget).  The radio of line 227 keeps its value; the
\* color picker loses its when a page without it is completed.
pickers(s, w, kept) ==
    LET parameters == s.parameters
        x == selectbox(parameters, default_index_x(parameters), kept, w.x)
        y == selectbox(parameters, default_index_y(parameters), kept, w.y)
        c == selectbox(parameters, default_index_color(parameters),
                       kept /\ w.colorKept, w.color)
    IN  IF w.chart_type = "line"
        THEN IF x.exc # "none" \/ y.exc # "none"
             THEN [wid |-> w,
                   ui |-> Page("StreamlitAPIException", FALSE, FALSE, NoChart)]
             ELSE [wid |-> [w EXCEPT !.x = x.idx, !.y = y.idx, !.color = 0,
                                     !.colorKept = FALSE],
                   ui |-> Page("none", TRUE, FALSE,
                               IF x.value # <<>> /\ y.value # <<>>
                               THEN [kind |-> "line", x |-> x.value,
                                     y |-> y.value, color |-> <<>>]
                               ELSE NoChart)]
        ELSE IF x.exc # "none" \/ y.exc # "none" \/ c.exc # "none"
             THEN [wid |-> w,
                   ui |-> Page("StreamlitAPIException", FALSE, FALSE, NoChart)]
             ELSE [wid |-> [w EXCEPT !.x = x.idx, !.y = y.idx,
                                     !.color = c.idx, !.colorKept = TRUE],
                   ui |-> Page("none", TRUE, TRUE,
                               IF x.value # <<>> /\ y.value # <<>>
                                  /\ c.value # <<>>
                               THEN [kind |-> "scatter", x |-> x.value,
                                     y |-> y.value, color |-> c.value]
                               ELSE NoChart)]

\* One run of qcodes_integration.  click: the button of line 213 was pressed,
\* with run_id in the number_input and ds in the data source.  An exception
\* of the load leaves the function: nothing below line 214 is shown, and the
\* widgets keep their values.  "current_data" (line 251) is set by no live
\* code, so lines 252-253 never run.
qcodes_integration(s, w, click, run_id, ds) ==
    LET l == IF click THEN load(s, run_id, ds) ELSE [exc |-> "none", ss |-> s]
    IN  IF l.exc # "none"
        THEN [ss |-> l.ss, wid |-> w, ui |-> Page(l.exc, FALSE, FALSE, NoChart)]
        ELSE IF ~(l.ss.df_in /\ l.ss.parameters_in)
        THEN [ss |-> l.ss, wid |-> w, ui |-> Page("none", FALSE, FALSE, NoChart)]
        ELSE LET r == pickers(l.ss, w,
                              s.parameters_in
                              /\ s.parameters = l.ss.parameters)
             IN  [ss |-> l.ss, wid |-> r.wid, ui |-> r.ui]

----------------------------------------------------------------------------
(* The user interface side: state and actions *)

Event(act) == [act |-> act, run_id |-> 0, ds |-> NotFound]

InitUI ==
    /\ ss = NoSession
    /\ wid = NoWidgets
    /\ ui = Page("none", FALSE, FALSE, NoChart)
    /\ ev = Event("none")

Rerun(w, click, run_id, ds, e) ==
    \E r \in {qcodes_integration(ss, w, click, run_id, ds)} :
        /\ ss' = r.ss
        /\ wid' = r.wid
        /\ ui' = r.ui
        /\ ev' = e

\* The user sets the run id and presses the load button.
ClickLoad ==
    \E n \in RunIds, ds \in Datasets :
        Rerun(wid, TRUE, n, ds, [act |-> "load", run_id |-> n, ds |-> ds])

\* The user flips the radio of line 227, which the last page showed.
SetChartType ==
    \E t \in {"line", "heat"} :
        /\ ui.pickers
        /\ Rerun([wid EXCEPT !.chart_type = t], FALSE, 0, NotFound,
                 Event("chart_type"))

\* The user picks a position in the X, Y or color selectbox of the last page.
SelectX ==
    \E i \in 0..(Len(ss.parameters) - 1) :
        /\ ui.pickers
        /\ Rerun([wid EXCEPT !.x = i], FALSE, 0, NotFound, Event("x"))

SelectY ==
    \E i \in 0..(Len(ss.parameters) - 1) :
        /\ ui.pickers
        /\ Rerun([wid EXCEPT !.y = i], FALSE, 0, NotFound, Event("y"))

SelectColor ==
    \E i \in 0..(Len(ss.parameters) - 1) :
        /\ ui.colorPicker
        /\ Rerun([wid EXCEPT !.color = i], FALSE, 0, NotFound, Event("color"))

----------------------------------------------------------------------------
(* create_plot called on its own *)

InitPlot == plot = NoPlot

CreatePlot ==
    \E cols \in SUBSET DataColumns, pt \in PlotTypes \cup OtherPlotTypes :
        LET r == create_plot([cols |-> cols, ids |-> <<>>], pt)
        IN  plot' = [called |-> TRUE, cols |-> cols, plot_type |-> pt,
                     exc |-> r.exc, fig |-> r.fig]

----------------------------------------------------------------------------
(* The specifications *)

Init == InitDB /\ InitUI /\ InitPlot

NextDB ==
    \/ InitDatabase /\ UNCHANGED <<uiVars, plot>>
    \/ InsertRow /\ UNCHANGED <<uiVars, plot>>
    \/ Tick /\ UNCHANGED <<uiVars, plot>>
    \/ FetchLiveData /\ UNCHANGED <<uiVars, plot>>
    \/ StartRealtime /\ UNCHANGED <<uiVars, plot>>
    \/ PollIteration /\ UNCHANGED <<uiVars, plot>>

NextUI ==
    \/ ClickLoad /\ UNCHANGED <<dbVars, plot>>
    \/ SetChartType /\ UNCHANGED <<dbVars, plot>>
    \/ SelectX /\ UNCHANGED <<dbVars, plot>>
    \/ SelectY /\ UNCHANGED <<dbVars, plot>>
    \/ SelectColor /\ UNCHANGED <<dbVars, plot>>

NextPlot == CreatePlot /\ UNCHANGED <<dbVars, uiVars>>

SpecDB == Init /\ [][NextDB]_vars

SpecUI == Init /\ [][NextUI]_vars

SpecPlot == Init /\ [][NextPlot]_vars

----------------------------------------------------------------------------
(* Properties of the polling fetcher *)

NewerThan(w) == {r \in db.rows : r > w}

\* C1: a call fetch_live_data(w) that queries the table returns a batch that
\* holds exactly the records with id > w, ordered by id ascending.
C1_FetchReturnsNewerRows ==
    (last.act = "fetch" /\ ~last.hit) =>
        /\ last.exc = "none"
        /\ Range(last.batch) = NewerThan(last.w)
        /\ IsAscending(last.batch)

\* C2: fetch_live_data(w) completes without an error and returns as new
\* watermark the maximum id of the batch, or w itself when the batch is empty.
C2_WatermarkIsMaxOrInput ==
    last.act = "fetch" =>
        /\ last.exc = "none"
        /\ last.wm = IF last.batch = <<>> THEN last.w
                     ELSE SetMax(Range(last.batch))

\* C3: a call with the watermark of an earlier call, made less than 300 s
\* after that call queried the table, returns the same (batch, watermark) as
\* it did; made 300 s after it or later, it returns the rows of the table as
\* they are now.
C3_MemoizedForTTL ==
    (last.act = "fetch" /\ last.prev.ran) =>
        IF now - last.prev.at < CacheTTL
        THEN /\ last.exc = "none"
             /\ last.prev.exc = "none"
             /\ last.batch = last.prev.batch
             /\ last.wm = last.prev.wm
        ELSE /\ last.exc = "none"
             /\ Range(last.batch) = NewerThan(last.w)

\* The polling loop never completes a pass: the call of line 105 raises, so
\* last_index stays 0 and nothing is drawn.
LoopNeverDraws == loop.last_index = 0 /\ loop.drawn = <<>>

----------------------------------------------------------------------------
(* Properties of init_database and of the connections *)

C9_NoConnectionHeld ==
    last.act \in {"init", "fetch", "poll"} => openConns = 0

----------------------------------------------------------------------------
(* Properties of create_plot *)

\* C5 as claimed: with a selector that is none of the four kinds create_plot
\* raises nothing and returns no chart.
C5_UnknownKindIsNoOp ==
    (plot.called /\ plot.plot_type \notin PlotTypes) =>
        plot.exc = "none" /\ plot.fig = "none"

\* C5 as amended: with a selector that is none of the four kinds create_plot
\* produces no chart and raises UnboundLocalError (fig is read unbound at
\* line 130).
C5_UnknownKindRaises ==
    (plot.called /\ plot.plot_type \notin PlotTypes) =>
        plot.exc = "UnboundLocalError" /\ plot.fig = "none"

\* C5's case: create_plot was called with a selector outside the four kinds,
\* on data that holds every column the four kinds name.
C5_Witness ==
    /\ plot.called
    /\ plot.plot_type \in OtherPlotTypes
    /\ plot.cols = DataColumns

----------------------------------------------------------------------------
(* Properties of qcodes_integration *)

\* C4: a load of a run that the data source does not hold raises the
\* not-found ValueError, which reaches the page, and leaves st.session_state
\* ("df" and "parameters") as it was.
C4_NotFoundKeepsSession ==
    [][(ev'.act = "load" /\ ~ev'.ds.found) =>
          (ui'.exc = "ValueError" /\ ss' = ss)]_vars

\* C4's case: a load of a missing run after a load that stored a dataset.
C4_Witness ==
    /\ ev.act = "load"
    /\ ~ev.ds.found
    /\ ui.exc = "ValueError"
    /\ ss.df_in
    /\ ss.parameters_in
    /\ Len(ss.parameters) > 1

ValidIndex(i, parameters) == i >= 0 /\ i < Len(parameters)

\* C6: every X, Y and color name handed to px.line or px.scatter is in the
\* parameter list of the session, no selectbox is given an index outside its
\* options, and the default indices are positions of the stored list.
C6_SelectionsWithinParameters ==
    /\ ui.exc # "StreamlitAPIException"
    /\ ui.chart.kind # "none" =>
          /\ ss.parameters_in
          /\ ui.chart.x \in Range(ss.parameters)
          /\ ui.chart.y \in Range(ss.parameters)
          /\ ui.chart.kind = "scatter" =>
                ui.chart.color \in Range(ss.parameters)
    /\ ss.parameters_in =>
          /\ ValidIndex(default_index_x(ss.parameters), ss.parameters)
          /\ ValidIndex(default_index_y(ss.parameters), ss.parameters)
          /\ ValidIndex(default_index_color(ss.parameters), ss.parameters)

\* C6's case: after a load of three names and a flip to the scatter chart,
\* the user picked X and Y and px.scatter was called with the default color.
C6_Witness ==
    /\ ui.chart.kind = "scatter"
    /\ Len(ss.parameters) > 2
    /\ ev.act = "y"
    /\ wid.color = 2
    /\ wid.x # 0

AllPiecesEmpty(str) == \A i \in 1..Len(split(str)) : split(str)[i] = <<>>

Malformed(ds) == ~ds.hasParams \/ AllPiecesEmpty(ds.params)

\* C7: a load of a dataset whose parameter list is absent, or splits to no
\* usable name, fails: it raises, stores nothing in st.session_state and
\* shows no pickers.
C7_MalformedParametersFail ==
    [][(ev'.act = "load" /\ ev'.ds.found /\ Malformed(ev'.ds)) =>
          (ui'.exc # "none" /\ ~ui'.pickers /\ ss' = ss)]_vars

====
